---- MODULE Spec2Model ----
(***************************************************************************)
(* StudyMate chat client: the ChatInput component (pending input string,   *)
(* handleSend, handleKeyPress, the textarea and the send button), the      *)
(* Message type, and the parent that owns the conversation and calls the   *)
(* answering backend.  Strings are sequences of one-character strings.     *)
(***************************************************************************)
EXTENDS Integers, Sequences, FiniteSets, TLC

\* ---- bounds ----
MaxLen == 2
MaxMessages == 3

\* ---- alphabet ----
Chars == {" ", "a"}
Whitespace == {" "}
Strings == UNION {[1..n -> Chars] : n \in 0..MaxLen}
Keys == {"Enter", "a"}
Answers == {<<"Photosynthesis is...">>, <<"42">>}
ErrorText == <<"Sorry, something went wrong.">>

VARIABLES
  input,        \* ChatInput: const [input, setInput] = useState('')
  messages,     \* parent: the conversation, a sequence of Message
  isLoading,    \* parent: a request is being awaited; passed as `disabled`
  outstanding,  \* backend calls in flight, each with the question asked
  nextId,       \* parent: source of fresh message identifiers
  sent,         \* history: arguments of every onSendMessage call, in order
  done,         \* history: the backend call that completed last
  failed,       \* history: ids of user messages whose call failed with no reply
  lastEvent     \* history: the event handled by the last step

vars == <<input, messages, isLoading, outstanding, nextId, sent, done, failed, lastEvent>>

\* ---- pure functions ----
RECURSIVE TrimStart(_)
TrimStart(s) ==
  IF s = <<>> THEN s
  ELSE IF Head(s) \in Whitespace THEN TrimStart(Tail(s)) ELSE s

RECURSIVE TrimEnd(_)
TrimEnd(s) ==
  IF s = <<>> THEN s
  ELSE IF s[Len(s)] \in Whitespace THEN TrimEnd(SubSeq(s, 1, Len(s) - 1)) ELSE s

\* trimStart() written where trim() was meant
TrimStartOnly(s) == TrimStart(s)

\* String.prototype.trim: whitespace removed from both ends, interior kept
Trim(s) == TrimEnd(TrimStart(s))

\* interface Message { id; role; content; timestamp }
Message(id, role, content) ==
  [id |-> id, role |-> role, content |-> content, timestamp |-> id]

Event(kind, key, shift, ctrl, alt, meta, answer) ==
  [kind |-> kind, key |-> key, shiftKey |-> shift, ctrlKey |-> ctrl,
   altKey |-> alt, metaKey |-> meta, answer |-> answer]

KeyboardEvents ==
  {Event("keydown", k, s, c, a, m, <<>>) :
     k \in Keys, s \in BOOLEAN, c \in BOOLEAN, a \in BOOLEAN, m \in BOOLEAN}

RemoveAt(q, i) == SubSeq(q, 1, i - 1) \o SubSeq(q, i + 1, Len(q))

\* ---- parent ----
\* a backend call in flight: the question, the id of its user message and
\* (history) the conversation as it was when the question was submitted
Request(question, userId, base) ==
  [question |-> question, userId |-> userId, base |-> base]

\* the `disabled` prop of ChatInput
disabled == isLoading

\* onSendMessage(content): append the user message, start the backend call
OnSendMessage(content) ==
  /\ sent' = Append(sent, content)
  /\ messages' = Append(messages, Message(nextId, "user", content))
  /\ nextId' = nextId + 1
  /\ isLoading' = TRUE
  /\ outstanding' = Append(outstanding, Request(content, nextId, messages))
  /\ UNCHANGED <<done, failed>>

ParentUnchanged ==
  UNCHANGED <<messages, isLoading, outstanding, nextId, sent, done, failed>>

\* ---- ChatInput ----
\* handleSend without the `!disabled` conjunct
HandleSendNoDisabledCheck ==
  IF Trim(input) # <<>>
  THEN /\ OnSendMessage(Trim(input))
       /\ input' = <<>>
  ELSE /\ UNCHANGED input
       /\ ParentUnchanged

\* handleSend without the `input.trim()` conjunct
HandleSendNoEmptyCheck ==
  IF ~disabled
  THEN /\ OnSendMessage(Trim(input))
       /\ input' = <<>>
  ELSE /\ UNCHANGED input
       /\ ParentUnchanged

\* handleSend with setInput('') moved out of the if
HandleSendAlwaysClears ==
  /\ input' = <<>>
  /\ IF Trim(input) # <<>> /\ ~disabled
     THEN OnSendMessage(Trim(input))
     ELSE ParentUnchanged

HandleSend ==
  IF Trim(input) # <<>> /\ ~disabled
  THEN /\ OnSendMessage(Trim(input))
       /\ input' = <<>>
  ELSE /\ UNCHANGED input
       /\ ParentUnchanged

\* handleKeyPress without the `!e.shiftKey` conjunct
HandleKeyPressNoShiftCheck(e) ==
  IF e.key = "Enter"
  THEN HandleSend
  ELSE /\ UNCHANGED input
       /\ ParentUnchanged

HandleKeyPress(e) ==
  IF e.key = "Enter" /\ ~e.shiftKey
  THEN HandleSend
  ELSE /\ UNCHANGED input
       /\ ParentUnchanged

\* <button disabled={disabled || !input.trim()}>
ButtonDisabled == disabled \/ Trim(input) = <<>>

\* the user stops asking once the conversation is full
CanAsk == Len(messages) + 2 <= MaxMessages

\* onKeyDown={handleKeyPress}
KeyDown(e) ==
  /\ CanAsk
  /\ HandleKeyPress(e)
  /\ lastEvent' = e

\* onClick={handleSend}; a disabled button delivers no click
Click ==
  /\ CanAsk
  /\ ~ButtonDisabled
  /\ HandleSend
  /\ lastEvent' = Event("click", "", FALSE, FALSE, FALSE, FALSE, <<>>)

\* onChange={(e) => setInput(e.target.value)}
Change(v) ==
  /\ input' = v
  /\ ParentUnchanged
  /\ lastEvent' = Event("change", "", FALSE, FALSE, FALSE, FALSE, <<>>)

\* ---- backend completion ----
BackendSuccess(i, answer) ==
  /\ i \in 1..Len(outstanding)
  /\ messages' = Append(messages, Message(nextId, "assistant", answer))
  /\ nextId' = nextId + 1
  /\ isLoading' = FALSE
  /\ outstanding' = RemoveAt(outstanding, i)
  /\ lastEvent' = Event("success", "", FALSE, FALSE, FALSE, FALSE, answer)
  /\ done' = outstanding[i]
  /\ UNCHANGED <<input, sent, failed>>

BackendFailure(i, showError) ==
  /\ i \in 1..Len(outstanding)
  /\ IF showError
     THEN /\ messages' = Append(messages, Message(nextId, "assistant", ErrorText))
          /\ nextId' = nextId + 1
          /\ UNCHANGED failed
     ELSE /\ failed' = failed \cup {outstanding[i].userId}
          /\ UNCHANGED <<messages, nextId>>
  /\ isLoading' = FALSE
  /\ outstanding' = RemoveAt(outstanding, i)
  /\ lastEvent' = Event("failure", "", FALSE, FALSE, FALSE, FALSE, <<>>)
  /\ done' = outstanding[i]
  /\ UNCHANGED <<input, sent>>

Init ==
  /\ input = <<>>
  /\ messages = <<>>
  /\ isLoading = FALSE
  /\ outstanding = <<>>
  /\ nextId = 1
  /\ sent = <<>>
  /\ done = Request(<<>>, 0, <<>>)
  /\ failed = {}
  /\ lastEvent = Event("none", "", FALSE, FALSE, FALSE, FALSE, <<>>)

Next ==
  \/ \E e \in KeyboardEvents : KeyDown(e)
  \/ Click
  \/ \E v \in Strings : Change(v)
  \/ \E i \in 1..MaxMessages, a \in Answers : BackendSuccess(i, a)
  \/ \E i \in 1..MaxMessages, b \in BOOLEAN : BackendFailure(i, b)

Spec == Init /\ [][Next]_vars

Completion ==
  \/ \E i \in 1..MaxMessages, a \in Answers : BackendSuccess(i, a)
  \/ \E i \in 1..MaxMessages, b \in BOOLEAN : BackendFailure(i, b)

\* every backend call resolves or rejects
FairSpec == Spec /\ WF_vars(Completion)

\* ---- vocabulary of the properties ----
HasText(s) == \E k \in 1..Len(s) : s[k] \notin Whitespace

\* t is s without its leading and trailing whitespace
IsTrimmed(t, s) ==
  /\ t # <<>> => t[1] \notin Whitespace /\ t[Len(t)] \notin Whitespace
  /\ \E i \in 0..Len(s) :
        /\ i + Len(t) <= Len(s)
        /\ t = SubSeq(s, i + 1, i + Len(t))
        /\ \A k \in 1..i : s[k] \in Whitespace
        /\ \A k \in (i + Len(t) + 1)..Len(s) : s[k] \in Whitespace

IsPrefix(p, q) == Len(p) <= Len(q) /\ SubSeq(q, 1, Len(p)) = p

UserCount(q) == Cardinality({k \in 1..Len(q) : q[k].role = "user"})

\* the step delivers a click or a key press
SubmitGesture == lastEvent'.kind \in {"click", "keydown"}

\* the step runs handleSend: a click, or Enter without Shift
RunsHandleSend ==
  \/ lastEvent'.kind = "click"
  \/ lastEvent'.kind = "keydown" /\ lastEvent'.key = "Enter" /\ ~lastEvent'.shiftKey

AnyModifier(e) == e.shiftKey \/ e.ctrlKey \/ e.altKey \/ e.metaKey

PlainEnter(e) == e.kind = "keydown" /\ e.key = "Enter" /\ ~AnyModifier(e)

\* ---- C1 ----
\* C1: when a backend call has just succeeded, the conversation is the one
\* the question was submitted into plus exactly two messages: the user
\* message carrying the question, then the assistant message carrying the
\* answer the backend returned.
C1_SuccessAppendsPair ==
  lastEvent.kind = "success" =>
    LET n == Len(messages) IN
      /\ n = Len(done.base) + 2
      /\ SubSeq(messages, 1, n - 2) = done.base
      /\ messages[n - 1].role = "user"
      /\ messages[n - 1].id = done.userId
      /\ messages[n - 1].content = done.question
      /\ messages[n].role = "assistant"
      /\ messages[n].content = lastEvent.answer

C1_Witness ==
  /\ lastEvent.kind = "success"
  /\ lastEvent.answer = <<"Photosynthesis is...">>
  /\ Len(messages) = 2
  /\ messages[2].role = "assistant"
  /\ messages[2].content = <<"Photosynthesis is...">>

\* ---- C2 ----
\* C2: a click or key press delivered while the input is disabled never calls
\* onSendMessage, and at most one question is outstanding in every state.
C2_NoSubmitWhileDisabled ==
  /\ [](Len(outstanding) <= 1)
  /\ [][(SubmitGesture /\ disabled) => sent' = sent]_vars

C2_Witness ==
  /\ disabled
  /\ Len(outstanding) = 1
  /\ PlainEnter(lastEvent)
  /\ HasText(input)
  /\ Len(sent) = 1

\* ---- C3 ----
\* C3: a click or key press delivered while the pending input has no
\* non-whitespace character neither calls onSendMessage nor extends the
\* conversation, whether or not the input is disabled.
C3_BlankNeverSent ==
  [][(SubmitGesture /\ ~HasText(input)) =>
       (sent' = sent /\ messages' = messages)]_vars

C3_Witness ==
  /\ PlainEnter(lastEvent)
  /\ ~disabled
  /\ input # <<>>
  /\ ~HasText(input)
  /\ messages = <<>>

\* ---- C4 ----
\* C4: the input is disabled in every state in which a request is in flight,
\* and every in-flight request is eventually followed by a state in which
\* the input is enabled again.
C4_DisabledWhileInFlight ==
  /\ [](outstanding # <<>> => disabled)
  /\ (outstanding # <<>>) ~> ~disabled

C4_Witness ==
  /\ lastEvent.kind = "failure"
  /\ outstanding = <<>>
  /\ ~disabled
  /\ Len(sent) = 2

\* ---- C5 ----
\* C5: when a backend call has just failed, the input is enabled and the
\* conversation holds at most one user message more than it held when the
\* failed question was submitted.
C5_FailureAddsAtMostOneUser ==
  lastEvent.kind = "failure" =>
    /\ ~disabled
    /\ UserCount(messages) <= UserCount(done.base) + 1

C5_Witness ==
  /\ lastEvent.kind = "failure"
  /\ done.userId \in failed
  /\ UserCount(messages) = UserCount(done.base) + 1
  /\ ~disabled

\* ---- C6 ----
Alternates(q) ==
  \A k \in 1..Len(q) : q[k].role = (IF k % 2 = 1 THEN "user" ELSE "assistant")

C7_AcceptedSubmit ==
  [][(RunsHandleSend /\ HasText(input) /\ ~disabled) =>
       /\ Len(sent') = Len(sent) + 1
       /\ SubSeq(sent', 1, Len(sent)) = sent
       /\ IsTrimmed(sent'[Len(sent')], input)
       /\ input' = <<>>]_vars

C7_Witness ==
  /\ lastEvent.kind = "click"
  /\ input = <<>>
  /\ Len(sent) = 1
  /\ sent[1] = <<"a">>
  /\ messages[1].content = <<"a">>

\* ---- C8 ----
\* C8 as stated: Enter with Shift, Ctrl, Alt or Meta held, and every key
\* other than Enter, never calls onSendMessage and never clears the input.
C8_Original ==
  [][(lastEvent'.kind = "keydown"
        /\ (lastEvent'.key # "Enter" \/ AnyModifier(lastEvent')))
       => (sent' = sent /\ input' = input)]_vars

\* C8: Enter with Shift held, and every key other than Enter, never calls
\* onSendMessage and never clears the input; Enter without Shift submits
\* sendable text whatever the state of Ctrl, Alt and Meta.
C8_ShiftEnterNeverSubmits ==
  [][/\ (lastEvent'.kind = "keydown"
           /\ (lastEvent'.key # "Enter" \/ lastEvent'.shiftKey))
          => (sent' = sent /\ input' = input)
     /\ (lastEvent'.kind = "keydown" /\ lastEvent'.key = "Enter"
           /\ ~lastEvent'.shiftKey /\ HasText(input) /\ ~disabled)
          => (Len(sent') = Len(sent) + 1 /\ input' = <<>>)]_vars

C8_Witness ==
  /\ lastEvent.kind = "keydown"
  /\ lastEvent.key = "Enter"
  /\ lastEvent.shiftKey
  /\ ~lastEvent.ctrlKey
  /\ HasText(input)
  /\ ~disabled
  /\ sent = <<>>

\* ---- C9 ----
DistinctIds(q) == \A j, k \in 1..Len(q) : q[j].id = q[k].id => j = k

\* C9: the identifiers in the conversation are pairwise distinct; across
\* every step the old conversation is a prefix of the new one, and it grows
\* only by one user message on an accepted submission or by one assistant
\* message on a backend completion.
C9_AppendOnly ==
  /\ []DistinctIds(messages)
  /\ [][/\ IsPrefix(messages, messages')
        /\ messages' # messages =>
             /\ Len(messages') = Len(messages) + 1
             /\ \/ /\ RunsHandleSend /\ HasText(input) /\ ~disabled
                   /\ messages'[Len(messages')].role = "user"
                \/ /\ lastEvent'.kind \in {"success", "failure"}
                   /\ outstanding # <<>>
                   /\ messages'[Len(messages')].role = "assistant"]_vars

C9_Witness ==
  /\ Len(messages) = 3
  /\ DistinctIds(messages)
  /\ messages[2].role = "user"
  /\ messages[3].role = "assistant"
  /\ messages[3].content = ErrorText

\* ---- C10 ----
\* C10: a step that runs handleSend while the pending input has no
\* non-whitespace character or the input is disabled leaves the pending input
\* and the onSendMessage calls as they were; the pending input changes only
\* on a change event or by being emptied on an accepted submission.
C10_RejectedSubmitKeepsInput ==
  [][/\ (RunsHandleSend /\ (~HasText(input) \/ disabled))
          => (input' = input /\ sent' = sent)
     /\ input' # input =>
          \/ lastEvent'.kind = "change"
          \/ /\ RunsHandleSend /\ HasText(input) /\ ~disabled
             /\ input' = <<>>]_vars

C10_Witness ==
  /\ PlainEnter(lastEvent)
  /\ disabled
  /\ input = <<" ", "a">>
====
